---------------------------- MODULE Spec2Model ----------------------------
(***************************************************************************)
(* pyturbo turbofan assembly.                                              *)
(*                                                                         *)
(*   - TurbofanGeom.compute (systems/turbofan/turbofan_geom.py): the       *)
(*     keypoint geometry derived from the inwards.                         *)
(*   - Turbofan.setup and TurbofanWithAtm.setup                            *)
(*     (systems/turbofan/turbofan.py): children, pulled names,             *)
(*     connections, default values and the 'scaling' design method.        *)
(*                                                                         *)
(* Numbers.  Lengths are integers on a grid of LengthUnit points per       *)
(* metre.  A ratio inward is an integer count of 1/RatioDen.  The input    *)
(* sets are chosen so that every product and quotient of compute() falls   *)
(* on the grid; the square root is the one rounding operation (it rounds   *)
(* down to the grid, as the float square root rounds to its own grid).     *)
(* A value that numpy can make non-finite is an Ext record: Fin(n) or NaN. *)
(***************************************************************************)
EXTENDS Integers, Sequences, FiniteSets, TLC

VARIABLES
    inwards,             \* TurbofanGeom inwards
    ports,               \* TurbofanGeom KeypointsPort outputs
    outwards,            \* TurbofanGeom outwards
    geom_pc,             \* "ready" | "done" : position of compute()
    setup_pc,            \* index of the next statement of the setup bodies
    children,            \* add_child calls made: <<assembly, child>>
    pulled,              \* pulled names: [asm, child, field, name]
    connectors,          \* connections made: [asm, at, src, dst]
    assigned,            \* direct assignments made: [at, target, value]
    solver_unknowns,     \* unknowns of the system itself (self.add_unknown)
    design               \* design methods: name -> [unknowns, targets]

geom_vars == <<inwards, ports, outwards, geom_pc>>
setup_vars == <<setup_pc, children, pulled, connectors, assigned,
                solver_unknowns, design>>
vars == <<geom_vars, setup_vars>>

----------------------------------------------------------------------------
(* Number representation *)

RatioDen == 2 * 2

\* grid points of half a fan diameter step: divisible often enough for the
\* two chained ratios, the 0.85 factor and the tangent of compute()
RadiusStep == RatioDen * RatioDen * RatioDen * 20

\* bound: fan_diameter ranges over 1..MaxFanSize diameter steps
MaxFanSize == 2

Fin(n) == [nan |-> FALSE, v |-> n]
NaN == [nan |-> TRUE, v |-> 0]

\* float product x * ratio, ratio = n / RatioDen
MulRatio(x, n) == (x * n) \div RatioDen

\* float quotient x / ratio, ratio = n / RatioDen, n # 0, rounded towards -inf
DivRatio(x, n) == IF n < 0 THEN ((0 - x) * RatioDen) \div (0 - n)
                           ELSE (x * RatioDen) \div n

RECURSIVE ISqrtBetween(_, _, _)
ISqrtBetween(lo, hi, x) ==
    IF lo >= hi THEN lo
    ELSE LET mid == (lo + hi + 1) \div 2
         IN  IF mid * mid <= x THEN ISqrtBetween(mid, hi, x)
                               ELSE ISqrtBetween(lo, mid - 1, x)

\* np.sqrt: NaN (and a RuntimeWarning, no exception) on a negative argument
NpSqrt(x) == IF x < 0 THEN NaN ELSE Fin(ISqrtBetween(0, 46340, x))

\* np.tan(np.radians(deg)) in 1/RatioDen, for the slopes of the input set
TanRadians(deg) ==
    CASE deg = -45 -> -4
      [] deg = -27 -> -2
      [] deg = -14 -> -1

ExtAddInt(a, n) == IF a.nan THEN NaN ELSE Fin(a.v + n)
ExtSubInt(a, n) == IF a.nan THEN NaN ELSE Fin(a.v - n)
ExtMulRatio(a, n) == IF a.nan THEN NaN ELSE Fin(MulRatio(a.v, n))
ExtDivRatio(a, n) == IF a.nan THEN NaN ELSE Fin(DivRatio(a.v, n))

\* Python max(a, b): a unless b > a; every comparison with NaN is false
PyMax(a, b) == IF (~a.nan) /\ b > a.v THEN Fin(b) ELSE a

R(p) == p[1]
Z(p) == p[2]

----------------------------------------------------------------------------
(* TurbofanGeom.compute, stage by stage *)

\* the lengths derived from the fan radius (compute's first block)
Lengths(i) ==
    LET fan_radius == i.fan_diameter \div 2
        core_inlet_radius == MulRatio(fan_radius, i.core_inlet_radius_ratio)
        turbine_radius == MulRatio(fan_radius, i.turbine_radius_ratio)
    IN  [fan_radius |-> fan_radius,
         fanmodule_length |-> MulRatio(fan_radius, i.fanmodule_length_ratio),
         inlet_radius |-> MulRatio(fan_radius, i.inlet_radius_ratio),
         inlet_length |-> MulRatio(fan_radius, i.inlet_length_ratio),
         core_inlet_radius |-> core_inlet_radius,
         core_exit_radius |-> MulRatio(fan_radius, i.core_exit_radius_ratio),
         core_length |-> MulRatio(core_inlet_radius, i.core_length_ratio),
         shaft_radius |-> MulRatio(fan_radius, i.shaft_radius_ratio),
         turbine_radius |-> turbine_radius,
         turbine_length |-> MulRatio(turbine_radius, i.turbine_length_ratio),
         trf_length |-> MulRatio(turbine_radius, i.trf_length_ratio),
         primary_nozzle_length |->
             MulRatio(turbine_radius, i.primary_nozzle_length_ratio)]

EngineLength(l) ==
    l.fanmodule_length + l.core_length + l.turbine_length + l.trf_length

FanmoduleKp(l) ==
    [inlet_hub |-> <<0, 0>>,
     inlet_tip |-> <<l.fan_radius, 0>>,
     exit_hub |-> <<0, 0 + l.fanmodule_length>>,
     exit_tip |-> <<l.fan_radius, 0 + l.fanmodule_length>>]

OgvExitHubKp(i, fm) == <<MulRatio(R(fm.exit_tip), i.ogv_exit_hqt), Z(fm.exit_tip)>>

\* faulty variant of InletKp: the exit tip placed at the inlet's own radius
InletKpOwnExit(l, fm) ==
    [exit_hub |-> <<0, 0>>,
     exit_tip |-> <<l.inlet_radius, Z(fm.inlet_tip)>>,
     inlet_hub |-> <<0, Z(fm.inlet_hub) - l.inlet_length>>,
     inlet_tip |-> <<l.inlet_radius, Z(fm.inlet_hub) - l.inlet_length>>]

\* the inlet, computed backward from the fan module inlet
InletKp(l, fm) ==
    [exit_hub |-> fm.inlet_hub,
     exit_tip |-> fm.inlet_tip,
     inlet_hub |-> <<0, Z(fm.inlet_hub) - l.inlet_length>>,
     inlet_tip |-> <<l.inlet_radius, Z(fm.inlet_hub) - l.inlet_length>>]

\* shaft_kp: inlet written before the core, exit after the tcf
ShaftKp(l, fm, tcf_length) ==
    LET inlet_hub == fm.exit_hub
        inlet_tip == <<R(fm.exit_hub) + l.shaft_radius, Z(fm.exit_hub)>>
        shaft_length == l.core_length + tcf_length
    IN  [inlet_hub |-> inlet_hub,
         inlet_tip |-> inlet_tip,
         exit_hub |-> <<R(inlet_hub), Z(inlet_hub) + shaft_length>>,
         exit_tip |-> <<R(inlet_tip), Z(inlet_tip) + shaft_length>>]

CoreKp(l, shaft_inlet_tip) ==
    LET inlet_hub == shaft_inlet_tip
        exit_hub == <<R(inlet_hub), Z(inlet_hub) + l.core_length>>
    IN  [inlet_hub |-> inlet_hub,
         inlet_tip |-> <<l.core_inlet_radius, Z(inlet_hub)>>,
         exit_hub |-> exit_hub,
         exit_tip |-> <<l.core_exit_radius, Z(exit_hub)>>]

TcfLength(i, core) == MulRatio(R(core.exit_tip), i.tcf_length_ratio)

TcfKp(i, core) ==
    LET inlet_hub == core.exit_hub
        inlet_tip == core.exit_tip
        tcf_length == TcfLength(i, core)
    IN  [inlet_hub |-> inlet_hub,
         inlet_tip |-> inlet_tip,
         exit_hub |-> <<R(inlet_hub), Z(inlet_hub) + tcf_length>>,
         exit_tip |-> <<MulRatio(R(core.exit_tip), i.tcf_exit_radius_ratio),
                        Z(core.exit_tip) + tcf_length>>]

TurbineKp(l, shaft, tcf) ==
    LET inlet_hub == shaft.exit_hub
        trb_exit_z == Z(inlet_hub) + l.turbine_length
    IN  [inlet_hub |-> inlet_hub,
         inlet_tip |-> tcf.exit_tip,
         exit_hub |-> <<R(inlet_hub), trb_exit_z>>,
         exit_tip |-> <<l.turbine_radius, trb_exit_z>>]

TrfKp(i, l, turbine) ==
    LET lpt_fp_exit_hub_r == MulRatio(R(turbine.exit_tip), i.turbine_fp_exit_hqt)
        inlet_hub == <<lpt_fp_exit_hub_r, Z(turbine.exit_hub)>>
        inlet_tip == turbine.exit_tip
        trf_exit_z == Z(inlet_hub) + l.trf_length
    IN  [inlet_hub |-> inlet_hub,
         inlet_tip |-> inlet_tip,
         exit_hub |-> <<R(inlet_hub), trf_exit_z>>,
         exit_tip |-> <<R(inlet_tip), trf_exit_z>>]

\* inlet_area is carried without its factor pi, which the radicand divides
\* out again (area_ratio * inlet_area / pi)

PrimaryNozzleKp(i, l, trf) ==
    LET inlet_hub == trf.exit_hub
        inlet_tip == trf.exit_tip
        inlet_area == R(inlet_tip) * R(inlet_tip) - R(inlet_hub) * R(inlet_hub)
    IN  [inlet_hub |-> inlet_hub,
         inlet_tip |-> inlet_tip,
         exit_hub |-> <<R(inlet_hub), Z(inlet_hub) + l.primary_nozzle_length>>,
         exit_tip |-> <<NpSqrt(MulRatio(inlet_area, i.pri_nozzle_area_ratio)
                               + R(inlet_hub) * R(inlet_hub)),
                        Z(trf.exit_tip)>>]

\* pyturbo.utils.slope_to_drdz: the slope angle as dr/dz
slope_to_drdz(slope) == TanRadians(slope)

\* faulty variant of PriNozzleExitKp: the exit radius taken from the nozzle's
\* area-ratio exit tip, whatever the slope
PriNozzleExitKpRadiusFromArea(i, l, pn, trf) ==
    LET min_dz == ExtDivRatio(ExtSubInt(R(pn.exit_tip), R(trf.exit_tip)),
                              TanRadians(i.core_cowl_slope))
        dz == PyMax(min_dz, l.primary_nozzle_length)
    IN  [rz |-> <<R(pn.exit_tip), ExtAddInt(dz, Z(trf.exit_tip))>>,
         drdz |-> slope_to_drdz(i.core_cowl_slope)]

PriNozzleExitKp(i, l, pn, trf) ==
    LET min_dz == ExtDivRatio(ExtSubInt(R(pn.exit_tip), R(trf.exit_tip)),
                              TanRadians(i.core_cowl_slope))
        dz == PyMax(min_dz, l.primary_nozzle_length)
        dr == ExtMulRatio(dz, TanRadians(i.core_cowl_slope))
    IN  [rz |-> <<ExtAddInt(dr, R(trf.exit_tip)), ExtAddInt(dz, Z(trf.exit_tip))>>,
         drdz |-> slope_to_drdz(i.core_cowl_slope)]

\* x * 0.85
Mul085(x) == (x * 17) \div 20

\* faulty variant of SecondaryNozzleKp: the radicand built on the inlet hub radius, as
\* the primary nozzle's is
SecondaryNozzleKpInletHub(i, ogv_exit_hub_kp, ogv_exit_tip_kp, fm, turbine, trf) ==
    LET inlet_hub == ogv_exit_hub_kp
        inlet_tip == ogv_exit_tip_kp
        sec_noz_tip_z == Mul085(Z(turbine.exit_tip) - Z(fm.exit_tip)) + Z(fm.exit_tip)
        dz == Z(trf.exit_tip) - sec_noz_tip_z
        dr == 0 - MulRatio(dz, TanRadians(i.core_cowl_slope))
        sec_noz_hub_r == R(trf.exit_tip) + dr
        inlet_area == R(inlet_tip) * R(inlet_tip) - R(inlet_hub) * R(inlet_hub)
        sec_noz_tip_r == NpSqrt(MulRatio(inlet_area, i.sec_nozzle_area_ratio)
                                + R(inlet_hub) * R(inlet_hub))
    IN  [inlet_hub |-> inlet_hub,
         inlet_tip |-> inlet_tip,
         exit_hub |-> <<sec_noz_hub_r, sec_noz_tip_z>>,
         exit_tip |-> <<sec_noz_tip_r, sec_noz_tip_z>>]

SecondaryNozzleKp(i, ogv_exit_hub_kp, ogv_exit_tip_kp, fm, turbine, trf) ==
    LET inlet_hub == ogv_exit_hub_kp
        inlet_tip == ogv_exit_tip_kp
        sec_noz_tip_z == Mul085(Z(turbine.exit_tip) - Z(fm.exit_tip)) + Z(fm.exit_tip)
        dz == Z(trf.exit_tip) - sec_noz_tip_z
        dr == 0 - MulRatio(dz, TanRadians(i.core_cowl_slope))
        sec_noz_hub_r == R(trf.exit_tip) + dr
        inlet_area == R(inlet_tip) * R(inlet_tip) - R(inlet_hub) * R(inlet_hub)
        sec_noz_tip_r == NpSqrt(MulRatio(inlet_area, i.sec_nozzle_area_ratio)
                                + sec_noz_hub_r * sec_noz_hub_r)
    IN  [inlet_hub |-> inlet_hub,
         inlet_tip |-> inlet_tip,
         exit_hub |-> <<sec_noz_hub_r, sec_noz_tip_z>>,
         exit_tip |-> <<sec_noz_tip_r, sec_noz_tip_z>>]

\* faulty variant of Mount: the relative position clamped to [0, 1]
MountClamped(r, a, b) ==
    LET c == IF r < 0 THEN 0 ELSE IF r > RatioDen THEN RatioDen ELSE r
    IN  <<MulRatio(R(a), RatioDen - c) + MulRatio(R(b), c),
          MulRatio(Z(a), RatioDen - c) + MulRatio(Z(b), c)>>

\* (1 - r) * a + r * b on keypoints, r in 1/RatioDen
Mount(r, a, b) ==
    <<MulRatio(R(a), RatioDen - r) + MulRatio(R(b), r),
      MulRatio(Z(a), RatioDen - r) + MulRatio(Z(b), r)>>

\* the output fields of a TurbofanGeom: its keypoint ports and its outwards
Store(p, o) == [ports |-> p, outwards |-> o]

\* faulty variant of ShaftExitKp: the exit keypoints advanced from their own
\* current values instead of from the inlet keypoints
ShaftExitKpAccumulating(shaft_kp, shaft_length) ==
    [shaft_kp EXCEPT
        !.exit_hub = <<R(shaft_kp.exit_hub), Z(shaft_kp.exit_hub) + shaft_length>>,
        !.exit_tip = <<R(shaft_kp.exit_tip), Z(shaft_kp.exit_tip) + shaft_length>>]

\* shaft exit: shaft_kp's exit keypoints from its inlet keypoints, as the
\* port holds them
ShaftExitKp(shaft_kp, shaft_length) ==
    [shaft_kp EXCEPT
        !.exit_hub = <<R(shaft_kp.inlet_hub), Z(shaft_kp.inlet_hub) + shaft_length>>,
        !.exit_tip = <<R(shaft_kp.inlet_tip), Z(shaft_kp.inlet_tip) + shaft_length>>]

\* the sections of compute(), in source order
Sections ==
    << "lengths", "fanmodule", "fan outwards", "inlet module", "shaft inlet",
       "core", "tcf", "shaft exit", "turbine", "trf", "primary nozzle",
       "pri_nozzle_exit_kp", "secondary nozzle", "sec_nozzle_exit_hub_kp",
       "nacelle", "mounts" >>

\* one section of compute() on the inwards i: it reads self.<output> from the
\* store s, the output fields as the sections before it have left them, and
\* writes its own fields into it
Section(name, i, s) ==
    LET l == Lengths(i)
    IN  CASE name = "lengths" ->
                [s EXCEPT !.outwards.fan_module_length = l.fanmodule_length,
                          !.outwards.engine_length = EngineLength(l)]
          [] name = "fanmodule" ->
                [s EXCEPT !.ports.fanmodule_kp = FanmoduleKp(l)]
          [] name = "fan outwards" ->
                [s EXCEPT
                    !.outwards.fan_inlet_tip_kp = s.ports.fanmodule_kp.inlet_tip,
                    !.outwards.ogv_exit_hub_kp = OgvExitHubKp(i, s.ports.fanmodule_kp),
                    !.outwards.ogv_exit_tip_kp = s.ports.fanmodule_kp.exit_tip]
          [] name = "inlet module" ->
                [s EXCEPT !.ports.inlet_kp = InletKp(l, s.ports.fanmodule_kp)]
          [] name = "shaft inlet" ->
                [s EXCEPT
                    !.ports.shaft_kp.inlet_hub =
                        ShaftKp(l, s.ports.fanmodule_kp, 0).inlet_hub,
                    !.ports.shaft_kp.inlet_tip =
                        ShaftKp(l, s.ports.fanmodule_kp, 0).inlet_tip]
          [] name = "core" ->
                [s EXCEPT !.ports.core_kp = CoreKp(l, s.ports.shaft_kp.inlet_tip)]
          [] name = "tcf" ->
                [s EXCEPT !.ports.tcf_kp = TcfKp(i, s.ports.core_kp)]
          [] name = "shaft exit" ->
                \* tcf_length, the local of the tcf section
                [s EXCEPT !.ports.shaft_kp =
                    ShaftExitKp(s.ports.shaft_kp,
                                l.core_length
                                + MulRatio(R(s.ports.tcf_kp.inlet_tip),
                                           i.tcf_length_ratio))]
          [] name = "turbine" ->
                [s EXCEPT !.ports.turbine_kp =
                    TurbineKp(l, s.ports.shaft_kp, s.ports.tcf_kp)]
          [] name = "trf" ->
                [s EXCEPT !.ports.trf_kp = TrfKp(i, l, s.ports.turbine_kp)]
          [] name = "primary nozzle" ->
                [s EXCEPT !.ports.primary_nozzle_kp =
                    PrimaryNozzleKp(i, l, s.ports.trf_kp)]
          [] name = "pri_nozzle_exit_kp" ->
                [s EXCEPT !.outwards.pri_nozzle_exit_kp =
                    PriNozzleExitKp(i, l, s.ports.primary_nozzle_kp, s.ports.trf_kp)]
          [] name = "secondary nozzle" ->
                [s EXCEPT !.ports.secondary_nozzle_kp =
                    SecondaryNozzleKp(i, s.outwards.ogv_exit_hub_kp,
                                      s.outwards.ogv_exit_tip_kp,
                                      s.ports.fanmodule_kp, s.ports.turbine_kp,
                                      s.ports.trf_kp)]
          [] name = "sec_nozzle_exit_hub_kp" ->
                [s EXCEPT !.outwards.sec_nozzle_exit_hub_kp =
                    [rz |-> s.ports.secondary_nozzle_kp.exit_hub,
                     drdz |-> slope_to_drdz(i.core_cowl_slope)]]
          [] name = "nacelle" ->
                [s EXCEPT
                    !.outwards.turbine_exit_tip_kp = s.ports.turbine_kp.exit_tip,
                    !.outwards.sec_nozzle_exit_kp =
                        s.ports.secondary_nozzle_kp.exit_tip]
          [] name = "mounts" ->
                [s EXCEPT
                    !.outwards.frd_mount =
                        Mount(i.frd_mount_relative, s.ports.fanmodule_kp.inlet_tip,
                              s.ports.fanmodule_kp.exit_tip),
                    !.outwards.aft_mount =
                        Mount(i.aft_mount_relative, s.ports.trf_kp.inlet_tip,
                              s.ports.trf_kp.exit_tip)]

\* sections k.. of compute(), one after the other; each section's store is
\* bound as a value before the next section reads it
RECURSIVE RunSections(_, _, _)
RunSections(k, i, s) ==
    IF k > Len(Sections) THEN s
    ELSE CHOOSE out \in {RunSections(k + 1, i, t) : t \in {Section(Sections[k], i, s)}} :
             TRUE

\* one compute() call on the inwards i, entered with the output fields as the
\* store s0 holds them
ComputeOutputs(i, s0) == RunSections(1, i, s0)

----------------------------------------------------------------------------
(* TurbofanGeom state machine: construction, then evaluation passes *)

\* grid points per metre: fan_diameter 1.6 m is two diameter steps
LengthUnit == (RadiusStep * 5) \div 2

ones == <<LengthUnit, LengthUnit>>

\* the inwards of a TurbofanGeom as constructed: the grid point of InwardsGrid
\* nearest the defaults of TurbofanGeom.setup
ConstructedInwards ==
    [fan_diameter |-> 2 * RadiusStep * 2,
    inlet_length_ratio |-> 2,
    inlet_radius_ratio |-> 3,
    fanmodule_length_ratio |-> 4,
    ogv_exit_hqt |-> 2,
    core_inlet_radius_ratio |-> 2,
    core_exit_radius_ratio |-> 2,
    core_length_ratio |-> 8,
    shaft_radius_ratio |-> 1,
    tcf_exit_radius_ratio |-> 5,
    tcf_length_ratio |-> 1,
    turbine_radius_ratio |-> 3,
    turbine_length_ratio |-> 4,
    turbine_fp_exit_hqt |-> 3,
    trf_length_ratio |-> 1,
    core_cowl_slope |-> -27,
    primary_nozzle_length_ratio |-> 2,
    secondary_nozzle_length_ratio |-> 1,
    frd_mount_relative |-> 2,
    aft_mount_relative |-> 2,
    pri_nozzle_area_ratio |-> 4,
    sec_nozzle_area_ratio |-> 4]

\* the grid of inwards, ratios and mount positions in 1/RatioDen,
\* core_cowl_slope in degrees
InwardsGrid ==
    [fan_diameter : {2 * RadiusStep * k : k \in 1..MaxFanSize},
     inlet_length_ratio : {2},
     inlet_radius_ratio : {3},
     fanmodule_length_ratio : {4},
     ogv_exit_hqt : {2},
     core_inlet_radius_ratio : {2},
     core_exit_radius_ratio : {2},
     core_length_ratio : {8},
     shaft_radius_ratio : {0, 1},
     tcf_exit_radius_ratio : {5},
     tcf_length_ratio : {0, 1},
     turbine_radius_ratio : {3},
     turbine_length_ratio : {4},
     turbine_fp_exit_hqt : {0, 3},
     trf_length_ratio : {1},
     core_cowl_slope : {-45, -27, -14},
     primary_nozzle_length_ratio : {0, 2},
     secondary_nozzle_length_ratio : {1, 8},
     frd_mount_relative : {-2, 0, 2, 4, 6},
     aft_mount_relative : {-2, 0, 2, 4, 6},
     pri_nozzle_area_ratio : {-8, 1, 4, 8},
     sec_nozzle_area_ratio : {-8, 2, 4}]

\* the inwards an evaluation pass can meet.  The two mounts are computed
\* independently of each other, so their positions are paired (every value of
\* each occurs, the forward one beyond the exit with the aft one ahead of the
\* inlet); a primary nozzle of no length is taken at the constructed mount
\* positions only.
InwardsSet ==
    {i \in InwardsGrid :
        /\ i.frd_mount_relative + i.aft_mount_relative = RatioDen
        /\ \/ i.primary_nozzle_length_ratio # 0
           \/ /\ i.frd_mount_relative = ConstructedInwards.frd_mount_relative
              /\ i.aft_mount_relative = ConstructedInwards.aft_mount_relative}

\* TurbofanGeom.setup: the output ports and the outwards with their defaults
GeomSetupPorts ==
    LET kp == [inlet_hub |-> ones, inlet_tip |-> ones,
               exit_hub |-> ones, exit_tip |-> ones]
        nozzle == [kp EXCEPT !.exit_tip = <<Fin(LengthUnit), LengthUnit>>]
    IN  [inlet_kp |-> kp, fanmodule_kp |-> kp, core_kp |-> kp, shaft_kp |-> kp,
         tcf_kp |-> kp, turbine_kp |-> kp, trf_kp |-> kp,
         primary_nozzle_kp |-> nozzle, secondary_nozzle_kp |-> nozzle]

GeomSetupOutwards ==
    [fan_inlet_tip_kp |-> ones,
     ogv_exit_hub_kp |-> ones,
     ogv_exit_tip_kp |-> ones,
     turbine_exit_tip_kp |-> ones,
     pri_nozzle_exit_kp |-> [rz |-> <<Fin(LengthUnit), Fin(LengthUnit)>>, drdz |-> 0],
     sec_nozzle_exit_kp |-> <<Fin(LengthUnit), LengthUnit>>,
     sec_nozzle_exit_hub_kp |-> [rz |-> ones, drdz |-> 0],
     frd_mount |-> <<(LengthUnit * 9) \div 10, LengthUnit \div 2>>,
     aft_mount |-> <<LengthUnit \div 2, LengthUnit * 3>>,
     fan_module_length |-> LengthUnit,
     engine_length |-> LengthUnit]

GeomInit ==
    /\ inwards \in InwardsSet
    /\ ports = GeomSetupPorts
    /\ outwards = GeomSetupOutwards
    /\ geom_pc = "ready"

\* one evaluation pass: compute() has no raise statement and numpy's sqrt and
\* division return NaN instead of raising, so every pass runs to its end.
\* It starts from the output fields as the last pass (or setup) left them.
Compute ==
    /\ geom_pc \in {"ready", "done", "dirty", "redone"}
    /\ LET out == ComputeOutputs(inwards, Store(ports, outwards))
       IN  /\ ports' = out.ports
           /\ outwards' = out.outwards
    /\ geom_pc' = CASE geom_pc = "ready" -> "done"
                    [] geom_pc = "dirty" -> "redone"
                    [] OTHER -> geom_pc
    /\ UNCHANGED inwards
    /\ UNCHANGED setup_vars

\* between two passes the owner (the 'scaling' design method iterating on the
\* geom.* unknowns, or a direct assignment) gives the inwards new values; the
\* outputs keep those of the last pass until the next one.  Taken from the
\* constructed inwards only, which keeps the stale outputs to one family.
SetInwards ==
    /\ geom_pc \in {"done", "redone"}
    /\ inwards = ConstructedInwards
    /\ inwards' \in InwardsSet
    /\ geom_pc' = "dirty"
    /\ UNCHANGED <<ports, outwards>>
    /\ UNCHANGED setup_vars


----------------------------------------------------------------------------
(* Turbofan.setup and TurbofanWithAtm.setup: the statements, in source order *)

NoKw == <<>>
Whole == <<(<<"*", "*">>)>>
Same(names) == [k \in 1..Len(names) |-> <<names[k], names[k]>>]

\* self.add_child(<child>, pulling=...): pulling as <<child field, parent name>>
Child(asm, child, pulling) ==
    [op |-> "add_child", asm |-> asm, child |-> child, pulling |-> pulling]

\* self.connect(src, dst[, mapping]); the port is "" when a system is named
Conn(src, dst, mapping) ==
    [op |-> "connect", asm |-> "Turbofan", src |-> src, dst |-> dst,
     mapping |-> mapping]

\* self.<path> = value
Assign(target, value) == [op |-> "assign", target |-> target, value |-> value]

Unknown(name, kw) ==
    [op |-> "design_add_unknown", method |-> "scaling", name |-> name, kw |-> kw]

Target(name) == [op |-> "design_add_target", method |-> "scaling", name |-> name]

\* faulty variant of CoreChild: the core's N pulled under the fan module's name
CoreChildPulledAsN1 ==
    Child("Turbofan", "core", {<<"fuel_W", "fuel_W">>, <<"N", "N1">>})

CoreChild == Child("Turbofan", "core", {<<"fuel_W", "fuel_W">>, <<"N", "N2">>})

TurbofanChildren ==
    << Child("Turbofan", "geom", {<<"fan_diameter", "fan_diameter">>,
                                  <<"frd_mount", "frd_mount">>,
                                  <<"aft_mount", "aft_mount">>}),
       Child("Turbofan", "inlet", {<<"fl_in", "fl_in">>, <<"pamb", "pamb">>}),
       Child("Turbofan", "fan_module", {<<"bpr", "bpr">>, <<"N", "N1">>}),
       Child("Turbofan", "fan_duct", {}),
       CoreChild,
       Child("Turbofan", "tcf", {}),
       Child("Turbofan", "turbine", {}),
       Child("Turbofan", "trf", {}),
       Child("Turbofan", "primary_nozzle", {<<"pamb", "pamb">>}),
       Child("Turbofan", "secondary_nozzle", {<<"pamb", "pamb">>}),
       Child("Turbofan", "nacelle", {}),
       Child("Turbofan", "plug", {}),
       Child("Turbofan", "core_cowl", {}),
       Child("Turbofan", "aero", {<<"fuel_W", "fuel_W">>, <<"opr", "opr">>,
                                  <<"thrust", "thrust">>, <<"pr_split", "pr_split">>,
                                  <<"sfc", "sfc">>, <<"pr_nozzle", "pr_nozzle">>}),
       Child("Turbofan", "weight", {<<"ipps_weight", "ipps_weight">>}) >>

ShaftConnectors ==
    << Conn(<<"turbine", "sh_out">>, <<"fan_module", "sh_in">>, Whole) >>

\* faulty variant of TrfNozzleFluidConnector: trf.fl_out wired to tcf instead of the
\* primary nozzle
TrfFluidConnectorToTcf == Conn(<<"trf", "fl_out">>, <<"tcf", "fl_in">>, Whole)

TrfNozzleFluidConnector ==
    Conn(<<"trf", "fl_out">>, <<"primary_nozzle", "fl_in">>, Whole)

FluidConnectors ==
    << Conn(<<"inlet", "fl_out">>, <<"fan_module", "fl_in">>, Whole),
       Conn(<<"fan_module", "fl_bypass">>, <<"fan_duct", "fl_in">>, Whole),
       Conn(<<"fan_duct", "fl_out">>, <<"secondary_nozzle", "fl_in">>, Whole),
       Conn(<<"fan_module", "fl_core">>, <<"core", "fl_in">>, Whole),
       Conn(<<"core", "fl_out">>, <<"tcf", "fl_in">>, Whole),
       Conn(<<"tcf", "fl_out">>, <<"turbine", "fl_in">>, Whole),
       Conn(<<"turbine", "fl_out">>, <<"trf", "fl_in">>, Whole),
       TrfNozzleFluidConnector >>

\* faulty variant of FanDuctKpConnector: the duct's keypoints wired into the secondary
\* nozzle's port a second time
FanDuctKpConnectorToNozzle ==
    Conn(<<"geom", "secondary_nozzle_kp">>, <<"secondary_nozzle", "kp">>, Whole)

FanDuctKpConnector ==
    Conn(<<"geom", "secondary_nozzle_kp">>, <<"fan_duct", "kp">>, Whole)

GeometryConnectors ==
    << Conn(<<"geom", "">>, <<"inlet", "">>, Same(<<"fan_inlet_tip_kp">>)),
       Conn(<<"geom", "">>, <<"fan_module", "">>,
            << <<"fan_diameter", "fan_diameter">>,
               <<"fan_module_length", "length">> >>),
       Conn(<<"geom", "core_kp">>, <<"core", "kp">>, Whole),
       Conn(<<"geom", "tcf_kp">>, <<"tcf", "kp">>, Whole),
       Conn(<<"geom", "turbine_kp">>, <<"turbine", "kp">>, Whole),
       Conn(<<"geom", "trf_kp">>, <<"trf", "kp">>, Whole),
       Conn(<<"geom", "primary_nozzle_kp">>, <<"primary_nozzle", "kp">>, Whole),
       Conn(<<"geom", "secondary_nozzle_kp">>, <<"secondary_nozzle", "kp">>, Whole),
       Conn(<<"geom", "">>, <<"nacelle", "">>,
            Same(<<"ogv_exit_tip_kp", "sec_nozzle_exit_kp">>)),
       Conn(<<"inlet", "">>, <<"nacelle", "">>, Same(<<"hilite_kp">>)),
       Conn(<<"self", "">>, <<"nacelle", "">>, Same(<<"fan_diameter">>)),
       Conn(<<"trf", "kp">>, <<"plug", "inwards">>,
            << <<"exit_hub", "trf_exit_hub_kp">> >>),
       FanDuctKpConnector,
       Conn(<<"geom", "">>, <<"fan_duct", "">>,
            << <<"fan_duct_core_cowl_slope", "core_cowl_slope">> >>),
       Conn(<<"geom", "">>, <<"core_cowl", "">>,
            << <<"sec_nozzle_exit_hub_kp", "inlet_kp">>,
               <<"pri_nozzle_exit_kp", "exit_kp">> >>) >>

AeroConnectors ==
    << Conn(<<"inlet", "outwards">>, <<"aero", "inwards">>,
            << <<"drag", "inlet_drag">> >>),
       Conn(<<"fan_module", "outwards">>, <<"aero", "inwards">>,
            Same(<<"fan_pr", "booster_pr">>)),
       Conn(<<"core", "outwards">>, <<"aero", "inwards">>,
            << <<"opr", "core_opr">> >>),
       Conn(<<"primary_nozzle", "outwards">>, <<"aero", "inwards">>,
            << <<"thrust", "primary_nozzle_thrust">> >>),
       Conn(<<"secondary_nozzle", "outwards">>, <<"aero", "inwards">>,
            << <<"thrust", "secondary_nozzle_thrust">> >>),
       Conn(<<"fan_duct", "fl_out">>, <<"aero", "fl_secondary_nozzle">>, Whole),
       Conn(<<"trf", "fl_out">>, <<"aero", "fl_primary_nozzle">>, Whole) >>

WeightConnectors ==
    << Conn(<<"self", "">>, <<"weight", "">>, Same(<<"fan_diameter">>)),
       Conn(<<"geom", "">>, <<"weight", "">>,
            << <<"engine_length", "length">> >>) >>

SolverUnknowns ==
    << [op |-> "add_unknown", name |-> "fl_in.W", kw |-> NoKw] >>

\* faulty variant of FanDiameterDefault: the default written to the fan module's
\* connected copy of the diameter
FanDiameterDefaultOnFanModule ==
    Assign(<<"fan_module", "inwards", "fan_diameter">>, "1.549")

FanDiameterDefault == Assign(<<"self", "inwards", "fan_diameter">>, "1.549")

DefaultValues ==
    << FanDiameterDefault,
       Assign(<<"fan_module.booster", "inwards", "stage_count">>, "3"),
       Assign(<<"core.compressor", "inwards", "stage_count">>, "9"),
       Assign(<<"core.turbine", "inwards", "stage_count">>, "1"),
       Assign(<<"turbine", "inwards", "stage_count">>, "4"),
       Assign(<<"fan_module.fan.geom", "inwards", "blade_hub_to_tip_ratio">>, "0.3"),
       Assign(<<"geom", "inwards", "core_inlet_radius_ratio">>, "0.35"),
       Assign(<<"core.compressor.geom", "inwards", "blade_hub_to_tip_ratio">>, "0.7"),
       Assign(<<"geom", "inwards", "tcf_exit_radius_ratio">>, "1.4"),
       Assign(<<"geom", "inwards", "tcf_length_ratio">>, "0.5"),
       Assign(<<"geom", "inwards", "pri_nozzle_area_ratio">>, "0.9"),
       Assign(<<"geom", "inwards", "sec_nozzle_area_ratio">>, "0.6") >>

InitUnknowns ==
    << Assign(<<"inlet", "fl_in", "W">>, "300.0"),
       Assign(<<"fan_module.splitter_shaft", "inwards", "power_fractions">>, "[0.8]"),
       Assign(<<"fan_module.splitter_fluid", "inwards", "fluid_fractions">>, "[0.8]"),
       Assign(<<"core.turbine.aero", "inwards", "Ncqdes">>, "100.0"),
       Assign(<<"core.turbine", "sh_out", "power">>, "30e6"),
       Assign(<<"core.compressor", "sh_in", "power">>, "30e6"),
       Assign(<<"core.turbine", "sh_out", "N">>, "15e3"),
       Assign(<<"turbine.aero", "inwards", "Ncqdes">>, "100.0"),
       Assign(<<"turbine", "sh_out", "power">>, "30e6"),
       Assign(<<"fan_module", "sh_in", "power">>, "30e6"),
       Assign(<<"turbine", "sh_out", "N">>, "5e3") >>

\* faulty variant of PriNozzleAreaUnknown: the bound given as an upper bound
PriNozzleAreaUnknownUpper ==
    Unknown("geom.pri_nozzle_area_ratio", [upper_bound |-> "0.05"])

PriNozzleAreaUnknown ==
    Unknown("geom.pri_nozzle_area_ratio", [lower_bound |-> "0.05"])

DesignMethod ==
    << [op |-> "add_design_method", method |-> "scaling"],
       Unknown("fan_diameter", NoKw),
       Target("inlet.aero.mach"),
       Unknown("fan_module.fan.aero.xnd", [max_rel_step |-> "0.5"]),
       Unknown("fan_module.fan.aero.phiP",
               [lower_bound |-> "0.1", upper_bound |-> "1.5"]),
       Target("fan_module.fan.aero.pcnr"),
       Target("fan_module.fan.aero.utip"),
       Target("bpr"),
       Unknown("fan_module.geom.booster_radius_ratio", NoKw),
       Unknown("fan_module.booster.geom.blade_hub_to_tip_ratio",
               [lower_bound |-> "1e-5", upper_bound |-> "1.0"]),
       Unknown("fan_module.booster.aero.phiP", NoKw),
       Unknown("fan_module.booster.aero.xnd", [max_rel_step |-> "0.5"]),
       Target("fan_module.booster.aero.phi"),
       Target("fan_module.booster.aero.psi"),
       Target("fan_module.booster.aero.spec_flow"),
       Target("fan_module.booster.aero.pcnr"),
       Unknown("geom.turbine_radius_ratio", NoKw),
       Unknown("turbine.geom.blade_height_ratio",
               [lower_bound |-> "0.0", upper_bound |-> "1.0"]),
       Unknown("turbine.aero.Ncdes", NoKw),
       Target("turbine.aero.psi"),
       Target("turbine.aero.Ncqdes"),
       Unknown("geom.core_inlet_radius_ratio", [max_rel_step |-> "0.8"]),
       Unknown("core.compressor.aero.xnd", [max_rel_step |-> "0.5"]),
       Unknown("core.compressor.aero.phiP", NoKw),
       Target("core.compressor.aero.pcnr"),
       Target("core.compressor.aero.phi"),
       Target("core.compressor.aero.utip"),
       Target("core.compressor.aero.pr"),
       Target("core.combustor.aero.Tcomb"),
       Unknown("geom.core_exit_radius_ratio", [max_rel_step |-> "0.8"]),
       Unknown("core.turbine.geom.blade_height_ratio",
               [lower_bound |-> "0.0", upper_bound |-> "1.0"]),
       Unknown("core.turbine.aero.Ncdes", NoKw),
       Target("core.turbine.aero.psi"),
       Target("core.turbine.aero.Ncqdes"),
       PriNozzleAreaUnknown,
       Unknown("geom.sec_nozzle_area_ratio", [upper_bound |-> "1.0"]),
       Target("pr_nozzle") >>

\* Turbofan.setup
TurbofanSetup ==
    TurbofanChildren \o ShaftConnectors \o FluidConnectors \o GeometryConnectors
    \o AeroConnectors \o WeightConnectors \o SolverUnknowns \o DefaultValues
    \o InitUnknowns \o DesignMethod

\* TurbofanWithAtm.setup; Turbofan("tf") runs Turbofan.setup before add_child
\* registers it
Program ==
    << Child("TurbofanWithAtm", "atm", {}) >>
    \o TurbofanSetup
    \o << Child("TurbofanWithAtm", "tf", {}),
          [Conn(<<"atm", "outwards">>, <<"tf", "fl_in">>, Same(<<"Pt", "Tt">>))
               EXCEPT !.asm = "TurbofanWithAtm"],
          [Conn(<<"atm", "outwards">>, <<"tf", "inwards">>, Same(<<"pamb">>))
               EXCEPT !.asm = "TurbofanWithAtm"] >>

----------------------------------------------------------------------------
(* The construction state machine: one step per statement *)

SetupInit ==
    /\ setup_pc = 1
    /\ children = <<>>
    /\ pulled = {}
    /\ connectors = <<>>
    /\ assigned = <<>>
    /\ solver_unknowns = <<>>
    /\ design = <<>>

SetupDone == setup_pc = Len(Program) + 1

At(op) == setup_pc <= Len(Program) /\ Program[setup_pc].op = op

Kw(kw, key, default) == IF key \in DOMAIN kw THEN kw[key] ELSE default

\* add_unknown(path, lower_bound=-inf, upper_bound=+inf, max_rel_step=+inf)
UnknownEntry(st) ==
    [name |-> st.name,
     lower_bound |-> Kw(st.kw, "lower_bound", "-inf"),
     upper_bound |-> Kw(st.kw, "upper_bound", "inf"),
     max_rel_step |-> Kw(st.kw, "max_rel_step", "inf")]

\* add_target(path, value=None)
TargetEntry(st) == [name |-> st.name, value |-> "None"]

\* a system named as destination receives into its inwards
DstPort(port) == IF port = "" THEN "inwards" ELSE port

\* the connections one connect() call makes, one per mapped field
ConnectorsOf(st, at) ==
    [k \in 1..Len(st.mapping) |->
        [asm |-> st.asm, at |-> at,
         src |-> <<st.src[1], st.src[2], st.mapping[k][1]>>,
         dst |-> <<st.dst[1], DstPort(st.dst[2]), st.mapping[k][2]>>]]

AddChild ==
    /\ At("add_child")
    /\ LET st == Program[setup_pc]
       IN  /\ children' = Append(children, <<st.asm, st.child>>)
           /\ pulled' = pulled \cup
                  {[asm |-> st.asm, child |-> st.child, field |-> q[1], name |-> q[2]]
                       : q \in st.pulling}
    /\ setup_pc' = setup_pc + 1
    /\ UNCHANGED <<connectors, assigned, solver_unknowns, design>>
    /\ UNCHANGED geom_vars

Connect ==
    /\ At("connect")
    /\ connectors' = connectors \o ConnectorsOf(Program[setup_pc], setup_pc)
    /\ setup_pc' = setup_pc + 1
    /\ UNCHANGED <<children, pulled, assigned, solver_unknowns, design>>
    /\ UNCHANGED geom_vars

AddUnknown ==
    /\ At("add_unknown")
    /\ solver_unknowns' = Append(solver_unknowns, UnknownEntry(Program[setup_pc]))
    /\ setup_pc' = setup_pc + 1
    /\ UNCHANGED <<children, pulled, connectors, assigned, design>>
    /\ UNCHANGED geom_vars

AssignValue ==
    /\ At("assign")
    /\ LET st == Program[setup_pc]
       IN  assigned' = Append(assigned,
                              [at |-> setup_pc, target |-> st.target, value |-> st.value])
    /\ setup_pc' = setup_pc + 1
    /\ UNCHANGED <<children, pulled, connectors, solver_unknowns, design>>
    /\ UNCHANGED geom_vars

AddDesignMethod ==
    /\ At("add_design_method")
    /\ design' = (Program[setup_pc].method :> [unknowns |-> <<>>, targets |-> <<>>])
                     @@ design
    /\ setup_pc' = setup_pc + 1
    /\ UNCHANGED <<children, pulled, connectors, assigned, solver_unknowns>>
    /\ UNCHANGED geom_vars

DesignAddUnknown ==
    /\ At("design_add_unknown")
    /\ LET st == Program[setup_pc]
       IN  design' = [design EXCEPT ![st.method].unknowns = Append(@, UnknownEntry(st))]
    /\ setup_pc' = setup_pc + 1
    /\ UNCHANGED <<children, pulled, connectors, assigned, solver_unknowns>>
    /\ UNCHANGED geom_vars

DesignAddTarget ==
    /\ At("design_add_target")
    /\ LET st == Program[setup_pc]
       IN  design' = [design EXCEPT ![st.method].targets = Append(@, TargetEntry(st))]
    /\ setup_pc' = setup_pc + 1
    /\ UNCHANGED <<children, pulled, connectors, assigned, solver_unknowns>>
    /\ UNCHANGED geom_vars

\* the geometry child as constructed, not yet evaluated
GeomConstructed ==
    /\ inwards = ConstructedInwards
    /\ ports = GeomSetupPorts
    /\ outwards = GeomSetupOutwards
    /\ geom_pc = "ready"

\* construction of TurbofanWithAtm (and of its Turbofan)
Init == SetupInit /\ GeomConstructed

Next ==
    \/ AddChild
    \/ Connect
    \/ AddUnknown
    \/ AssignValue
    \/ AddDesignMethod
    \/ DesignAddUnknown
    \/ DesignAddTarget

Spec == Init /\ [][Next]_vars

\* evaluation passes of a TurbofanGeom over the inwards of InwardsSet
InitGeom == GeomInit /\ SetupInit

NextGeom ==
    \/ Compute
    \/ SetInwards

SpecGeom == InitGeom /\ [][NextGeom]_vars

----------------------------------------------------------------------------
(* Geometry properties *)

Computed == geom_pc \in {"done", "redone"}

HubContinuous(a, b) == b.inlet_hub = a.exit_hub
TipContinuous(a, b) == b.inlet_tip = a.exit_tip

\* C1 as stated: after compute(), each of the five adjacent pairs (inlet ->
\* fan module, core -> tcf, tcf -> turbine, turbine -> trf, trf -> primary
\* nozzle) has inlet_hub = upstream exit_hub and inlet_tip = upstream exit_tip.
C1_AllPairsContinuous ==
    Computed =>
        /\ HubContinuous(ports.inlet_kp, ports.fanmodule_kp)
        /\ TipContinuous(ports.inlet_kp, ports.fanmodule_kp)
        /\ HubContinuous(ports.core_kp, ports.tcf_kp)
        /\ TipContinuous(ports.core_kp, ports.tcf_kp)
        /\ HubContinuous(ports.tcf_kp, ports.turbine_kp)
        /\ TipContinuous(ports.tcf_kp, ports.turbine_kp)
        /\ HubContinuous(ports.turbine_kp, ports.trf_kp)
        /\ TipContinuous(ports.turbine_kp, ports.trf_kp)
        /\ HubContinuous(ports.trf_kp, ports.primary_nozzle_kp)
        /\ TipContinuous(ports.trf_kp, ports.primary_nozzle_kp)

\* C1 amended: after compute(), the tips of all five pairs are continuous and
\* the hubs of inlet -> fan module, core -> tcf and trf -> primary nozzle are
\* continuous; the turbine's inlet hub is the shaft's exit hub (radius 0, the
\* tcf's exit hub being at the shaft radius) and the trf's inlet hub is at
\* turbine_fp_exit_hqt times the turbine exit tip radius, at the axial
\* position of the turbine's exit hub (whose radius is the turbine inlet
\* hub's).
C1_ContinuityExceptTurbineHubs ==
    Computed =>
        /\ HubContinuous(ports.inlet_kp, ports.fanmodule_kp)
        /\ TipContinuous(ports.inlet_kp, ports.fanmodule_kp)
        /\ HubContinuous(ports.core_kp, ports.tcf_kp)
        /\ TipContinuous(ports.core_kp, ports.tcf_kp)
        /\ TipContinuous(ports.tcf_kp, ports.turbine_kp)
        /\ TipContinuous(ports.turbine_kp, ports.trf_kp)
        /\ HubContinuous(ports.trf_kp, ports.primary_nozzle_kp)
        /\ TipContinuous(ports.trf_kp, ports.primary_nozzle_kp)
        /\ ports.turbine_kp.inlet_hub = ports.shaft_kp.exit_hub
        /\ R(ports.turbine_kp.inlet_hub) = 0
        /\ R(ports.tcf_kp.exit_hub)
               = MulRatio(inwards.fan_diameter \div 2, inwards.shaft_radius_ratio)
        /\ R(ports.turbine_kp.exit_hub) = R(ports.turbine_kp.inlet_hub)
        /\ ports.trf_kp.inlet_hub
               = <<MulRatio(R(ports.turbine_kp.exit_tip), inwards.turbine_fp_exit_hqt),
                   Z(ports.turbine_kp.exit_hub)>>

\* C1 witness: a computed geometry whose two turbine hubs are discontinuous
C1_Witness ==
    /\ Computed
    /\ R(ports.turbine_kp.inlet_hub) # R(ports.tcf_kp.exit_hub)
    /\ R(ports.trf_kp.inlet_hub) # R(ports.turbine_kp.exit_hub)
    /\ ports.fanmodule_kp.inlet_tip = ports.inlet_kp.exit_tip

\* area_ratio * (inlet_tip_r^2 - inlet_hub_r^2) + exit_hub_r^2 of a nozzle port
ExitTipSquare(kp, area_ratio) ==
    MulRatio(R(kp.inlet_tip) * R(kp.inlet_tip) - R(kp.inlet_hub) * R(kp.inlet_hub),
             area_ratio)
    + R(kp.exit_hub) * R(kp.exit_hub)

\* e is a finite non-negative number whose square is x up to the rounding of
\* the square root (exactly x when x is a square on the grid)
IsRootOf(e, x) ==
    /\ ~e.nan
    /\ e.v >= 0
    /\ e.v * e.v <= x
    /\ x < (e.v + 1) * (e.v + 1)

AreaRatioInRange(a) == a > 0 /\ a <= 2 * RatioDen

InletAnnulusOk(kp) == R(kp.inlet_tip) >= R(kp.inlet_hub) /\ R(kp.inlet_hub) >= 0

\* C3: for the primary and the secondary nozzle, after compute(), with
\* area_ratio in (0, 2] and inlet_tip_r >= inlet_hub_r >= 0,
\* exit_tip_r^2 - exit_hub_r^2 = area_ratio * (inlet_tip_r^2 - inlet_hub_r^2),
\* to the rounding of the square root.
C3_NozzleAreaRatio ==
    Computed =>
        /\ (AreaRatioInRange(inwards.pri_nozzle_area_ratio)
            /\ InletAnnulusOk(ports.primary_nozzle_kp))
           => IsRootOf(R(ports.primary_nozzle_kp.exit_tip),
                       ExitTipSquare(ports.primary_nozzle_kp,
                                     inwards.pri_nozzle_area_ratio))
        /\ (AreaRatioInRange(inwards.sec_nozzle_area_ratio)
            /\ InletAnnulusOk(ports.secondary_nozzle_kp))
           => IsRootOf(R(ports.secondary_nozzle_kp.exit_tip),
                       ExitTipSquare(ports.secondary_nozzle_kp,
                                     inwards.sec_nozzle_area_ratio))

\* C3 witness: both nozzles contracted, the primary one with an exit annulus
\* of exactly a quarter of a non-degenerate inlet annulus
C3_Witness ==
    /\ Computed
    /\ inwards.pri_nozzle_area_ratio = 1
    /\ inwards.sec_nozzle_area_ratio = 2
    /\ InletAnnulusOk(ports.primary_nozzle_kp)
    /\ InletAnnulusOk(ports.secondary_nozzle_kp)
    /\ R(ports.secondary_nozzle_kp.exit_hub) # R(ports.secondary_nozzle_kp.inlet_hub)
    /\ R(ports.primary_nozzle_kp.inlet_tip) > R(ports.primary_nozzle_kp.inlet_hub)
    /\ ~R(ports.primary_nozzle_kp.exit_tip).nan
    /\ 4 * (R(ports.primary_nozzle_kp.exit_tip).v * R(ports.primary_nozzle_kp.exit_tip).v
            - R(ports.primary_nozzle_kp.exit_hub) * R(ports.primary_nozzle_kp.exit_hub))
         = R(ports.primary_nozzle_kp.inlet_tip) * R(ports.primary_nozzle_kp.inlet_tip)
           - R(ports.primary_nozzle_kp.inlet_hub) * R(ports.primary_nozzle_kp.inlet_hub)

\* the axial offset dz that placed pri_nozzle_exit_kp, read back from its rz
PriExitOffset == ExtSubInt(Z(outwards.pri_nozzle_exit_kp.rz), Z(ports.trf_kp.exit_tip))

\* the offset the core-cowl slope requires between the trf exit tip and the
\* primary nozzle exit tip radius
PriSlopeOffset ==
    ExtDivRatio(ExtSubInt(R(ports.primary_nozzle_kp.exit_tip), R(ports.trf_kp.exit_tip)),
                TanRadians(inwards.core_cowl_slope))

PriNominalLength ==
    MulRatio(MulRatio(inwards.fan_diameter \div 2, inwards.turbine_radius_ratio),
             inwards.primary_nozzle_length_ratio)

\* the secondary nozzle's axial extent and its nominal ratio-based length
SecExitOffset ==
    Z(ports.secondary_nozzle_kp.exit_hub) - Z(ports.secondary_nozzle_kp.inlet_hub)

SecNominalLength ==
    MulRatio(inwards.fan_diameter \div 2, inwards.secondary_nozzle_length_ratio)

PriOffsetIsMax ==
    /\ ~PriExitOffset.nan
    /\ PriExitOffset.v >= PriNominalLength
    /\ PriExitOffset.v >= PriSlopeOffset.v
    /\ PriExitOffset.v \in {PriNominalLength, PriSlopeOffset.v}

\* C4 as stated: for the primary and for the secondary nozzle exit fairing the
\* axial offset that places the exit keypoint is max(slope-required offset,
\* nominal ratio-based length), so never shorter than either.
C4_OffsetIsMaxOfSlopeAndNominal ==
    (Computed /\ ~R(ports.primary_nozzle_kp.exit_tip).nan) =>
        /\ PriOffsetIsMax
        /\ SecExitOffset >= SecNominalLength

\* the part of C4 the code does implement, kept as a regression check: the
\* primary nozzle exit offset is the max of the two candidates
C4_PrimaryOffsetIsMax ==
    (Computed /\ ~R(ports.primary_nozzle_kp.exit_tip).nan) => PriOffsetIsMax

\* C5: frd_mount = (1 - r) * fanmodule_kp.inlet_tip + r * fanmodule_kp.exit_tip
\* and aft_mount likewise on trf_kp: the inlet tip at r = 0, the midpoint at
\* r = 0.5, the exit tip at r = 1, and on the same line, unclamped, outside
\* [0, 1].
OnLine(m, r, a, b) ==
    /\ RatioDen * R(m) = (RatioDen - r) * R(a) + r * R(b)
    /\ RatioDen * Z(m) = (RatioDen - r) * Z(a) + r * Z(b)

MountOk(m, r, a, b) ==
    /\ OnLine(m, r, a, b)
    /\ (r = 0) => m = a
    /\ (r = RatioDen) => m = b
    /\ (2 * r = RatioDen) => (2 * R(m) = R(a) + R(b) /\ 2 * Z(m) = Z(a) + Z(b))
    /\ (r > RatioDen /\ Z(b) > Z(a)) => Z(m) > Z(b)
    /\ (r < 0 /\ Z(b) > Z(a)) => Z(m) < Z(a)

C5_MountInterpolation ==
    Computed =>
        /\ MountOk(outwards.frd_mount, inwards.frd_mount_relative,
                   ports.fanmodule_kp.inlet_tip, ports.fanmodule_kp.exit_tip)
        /\ MountOk(outwards.aft_mount, inwards.aft_mount_relative,
                   ports.trf_kp.inlet_tip, ports.trf_kp.exit_tip)

\* C5 witness: a forward mount extrapolated behind the fan module exit and an
\* aft mount extrapolated ahead of the trf inlet
C5_Witness ==
    /\ Computed
    /\ inwards.frd_mount_relative > RatioDen
    /\ Z(outwards.frd_mount) > Z(ports.fanmodule_kp.exit_tip)
    /\ inwards.aft_mount_relative < 0
    /\ Z(outwards.aft_mount) < Z(ports.trf_kp.inlet_tip)

PriRadicand ==
    ExitTipSquare(ports.primary_nozzle_kp, inwards.pri_nozzle_area_ratio)

SecRadicand ==
    ExitTipSquare(ports.secondary_nozzle_kp, inwards.sec_nozzle_area_ratio)

\* C6 as stated: with a negative radicand compute() ends in an evaluation
\* error, so no pass completes normally on a negative radicand, and none
\* completes with a non-finite exit_tip written to primary_nozzle_kp,
\* secondary_nozzle_kp or sec_nozzle_exit_kp.
C6_NegativeRadicandRaises ==
    Computed =>
        /\ PriRadicand >= 0
        /\ SecRadicand >= 0
        /\ ~R(ports.primary_nozzle_kp.exit_tip).nan
        /\ ~R(ports.secondary_nozzle_kp.exit_tip).nan
        /\ ~R(outwards.sec_nozzle_exit_kp).nan

\* the output fields a pass can find on entry: those of setup, and those left
\* by the pass on the constructed inwards
SetupStore == Store(GeomSetupPorts, GeomSetupOutwards)

EntryStores == {SetupStore, ComputeOutputs(ConstructedInwards, SetupStore)}

\* C11: compute() is a function of the inwards only.  Whatever output values
\* the pass that produced the current outputs found on entry, a pass on the
\* same inwards entered with any other output values (those of setup, those
\* of a pass on other inwards, or the current ones: evaluating twice) yields
\* exactly the current outputs; no output value from before the call
\* survives into or influences the result.
C11_OutputsFunctionOfInwards ==
    Computed =>
        \A s \in EntryStores \cup {Store(ports, outwards)} :
            ComputeOutputs(inwards, s) = Store(ports, outwards)

\* a pass has run on changed inwards over the outputs of an earlier pass
C11_Witness ==
    /\ geom_pc = "redone"
    /\ inwards # ConstructedInwards
    /\ inwards.fan_diameter # ConstructedInwards.fan_diameter
    /\ Store(ports, outwards) \notin EntryStores

\* C12: engine_length is the engine length from the fan module to the trf:
\* the axial distance from the fan module inlet plane to the trf exit plane,
\* for every value of the inwards
C12_EngineLengthSpansFanToTrf ==
    Computed =>
        outwards.engine_length =
            Z(ports.trf_kp.exit_tip) - Z(ports.fanmodule_kp.inlet_tip)

\* C13: the secondary nozzle's axial length, exit minus inlet, on the hub and
\* on the tip, is (fan_diameter / 2) * secondary_nozzle_length_ratio
C13_SecondaryNozzleLengthFromRatio ==
    Computed =>
        /\ Z(ports.secondary_nozzle_kp.exit_tip) - Z(ports.secondary_nozzle_kp.inlet_tip)
               = SecNominalLength
        /\ Z(ports.secondary_nozzle_kp.exit_hub) - Z(ports.secondary_nozzle_kp.inlet_hub)
               = SecNominalLength

\* the slopes of the input set
Slopes == {i.core_cowl_slope : i \in InwardsGrid}

\* pri_nozzle_exit_kp.rz of a pass on the current inwards with core_cowl_slope
\* replaced
PriNozzleExitAtSlope(slope) ==
    ComputeOutputs([inwards EXCEPT !.core_cowl_slope = slope],
                   SetupStore).outwards.pri_nozzle_exit_kp.rz

\* the exit keypoint b lies at the same finite axial position as a, hence at
\* the same axial offset dz from the trf exit tip, which no slope moves
SameOffset(a, b) == (~Z(a).nan) /\ (~Z(b).nan) /\ Z(a).v = Z(b).v

StrictlyInside(b, a) == (~R(a).nan) /\ (~R(b).nan) /\ R(b).v < R(a).v

\* C14, as stated: with every other inward and the axial offset dz fixed, a
\* more negative core_cowl_slope gives a strictly smaller radius of
\* pri_nozzle_exit_kp
C14_SteeperCowlSmallerExitRadius ==
    Computed =>
        \A steeper \in {s \in Slopes : s < inwards.core_cowl_slope} :
            \A rz \in {PriNozzleExitAtSlope(steeper)} :
                SameOffset(outwards.pri_nozzle_exit_kp.rz, rz)
                => StrictlyInside(rz, outwards.pri_nozzle_exit_kp.rz)

\* C14, amended: the same, for a fixed axial offset dz that is positive
C14_SteeperCowlSmallerExitRadiusAtPositiveOffset ==
    Computed =>
        \A steeper \in {s \in Slopes : s < inwards.core_cowl_slope} :
            \A rz \in {PriNozzleExitAtSlope(steeper)} :
                (SameOffset(outwards.pri_nozzle_exit_kp.rz, rz) /\ PriExitOffset.v > 0)
                => StrictlyInside(rz, outwards.pri_nozzle_exit_kp.rz)

\* a pass at the shallowest slope whose exit keypoint keeps its positive axial
\* offset at both steeper slopes
C14_Witness ==
    /\ Computed
    /\ \A s \in Slopes : inwards.core_cowl_slope >= s
    /\ ~PriExitOffset.nan
    /\ PriExitOffset.v > 0
    /\ \A steeper \in Slopes \ {inwards.core_cowl_slope} :
           \A rz \in {PriNozzleExitAtSlope(steeper)} :
               /\ SameOffset(outwards.pri_nozzle_exit_kp.rz, rz)
               /\ StrictlyInside(rz, outwards.pri_nozzle_exit_kp.rz)

----------------------------------------------------------------------------
(* Assembly properties *)

\* the connections of one assembly, as a set
ConnectorSet(asm) ==
    {connectors[k] : k \in {j \in 1..Len(connectors) : connectors[j].asm = asm}}

\* producer -> consumer edges over the children of Turbofan
ChildEdges ==
    {<<c.src[1], c.dst[1]>> :
        c \in {d \in ConnectorSet("Turbofan") : d.src[1] # "self" /\ d.dst[1] # "self"}}

\* transitive closure of a set of edges
RECURSIVE Closure(_, _)
Closure(E, n) ==
    IF n = 0 THEN E
    ELSE LET F == E \cup {<<p[1][1], p[2][2]>> :
                              p \in {q \in E \X E : q[1][2] = q[2][1]}}
         IN  IF F = E THEN E ELSE Closure(F, n - 1)

Reach(E) == Closure(E, Cardinality(E))

Acyclic(E) == \A p \in Reach(E) : p[1] # p[2]

ShaftEdge == <<"turbine", "fan_module">>

\* C2 as stated: the producer -> consumer graph over the children of Turbofan
\* induced by the connections of Turbofan.setup is acyclic.
C2_GraphAcyclic == Acyclic(ChildEdges)

\* C2 amended: the graph is acyclic but for the shaft connection: without the
\* edge turbine -> fan_module (turbine.sh_out -> fan_module.sh_in) it has no
\* cycle, and once setup has run the shaft edge closes the loop fan_module ->
\* core -> tcf -> turbine -> fan_module, which setup declares to its end.
C2_AcyclicButForShaftLoop ==
    /\ Acyclic(ChildEdges \ {ShaftEdge})
    /\ SetupDone =>
        /\ ShaftEdge \in ChildEdges
        /\ {<<"fan_module", "core">>, <<"core", "tcf">>, <<"tcf", "turbine">>}
               \subseteq ChildEdges
        /\ <<"fan_module", "fan_module">> \in Reach(ChildEdges)

\* C2 witness: both setups have run to their end with the shaft loop in place
C2_Witness ==
    /\ SetupDone
    /\ <<"fan_module", "turbine">> \in Reach(ChildEdges \ {ShaftEdge})
    /\ ShaftEdge \in ChildEdges

\* two endpoints name a common field: the same owner and port, and the same
\* field or one of them the whole port
Overlap(a, b) ==
    /\ a[1] = b[1]
    /\ a[2] = b[2]
    /\ (a[3] = b[3] \/ a[3] = "*" \/ b[3] = "*")

\* the direct assignments of Turbofan.setup that write a field an earlier
\* connection of Turbofan.setup has as destination
AssignedAfterConnected ==
    {assigned[k].target :
        k \in {j \in 1..Len(assigned) :
                 \E c \in ConnectorSet("Turbofan") :
                     c.at < assigned[j].at /\ Overlap(c.dst, assigned[j].target)}}

\* C7 as stated: no direct assignment of Turbofan.setup targets a field that
\* an earlier connection has as destination, fan_module.sh_in in particular.
C7_NoAssignmentToConnected == AssignedAfterConnected = {}

\* C7 amended: the one direct assignment to a connected destination is
\* fan_module.sh_in.power (an 'init unknowns' value for the port connected
\* from turbine.sh_out); every other direct assignment targets a field that
\* no connection of Turbofan.setup writes.
C7_OnlyShaftInputAssigned ==
    /\ AssignedAfterConnected \subseteq {<<"fan_module", "sh_in", "power">>}
    /\ SetupDone =>
        /\ AssignedAfterConnected = {<<"fan_module", "sh_in", "power">>}
        /\ \E c \in ConnectorSet("Turbofan") :
               c.src = <<"turbine", "sh_out", "*">> /\ c.dst = <<"fan_module", "sh_in", "*">>

\* C7 witness: every default and initial value has been assigned, the fan
\* diameter among them
C7_Witness ==
    /\ SetupDone
    /\ Len(assigned) > 1
    /\ \E k \in 1..Len(assigned) : assigned[k].target = <<"self", "inwards", "fan_diameter">>
    /\ \E k \in 1..Len(assigned) : assigned[k].target = <<"fan_module", "sh_in", "power">>

\* C8: over the connections of Turbofan.setup and of TurbofanWithAtm.setup no
\* destination field is written by two connections; a source may fan out.
C8_OneProducerPerDestination ==
    \A j, k \in 1..Len(connectors) :
        (j # k /\ connectors[j].asm = connectors[k].asm)
            => ~Overlap(connectors[j].dst, connectors[k].dst)

\* C8 witness: all connections made, geom.secondary_nozzle_kp fanned out to
\* the secondary nozzle and to the fan duct
C8_Witness ==
    /\ SetupDone
    /\ \E j, k \in 1..Len(connectors) :
           /\ connectors[j].src = <<"geom", "secondary_nozzle_kp", "*">>
           /\ connectors[k].src = connectors[j].src
           /\ connectors[j].dst = <<"secondary_nozzle", "kp", "*">>
           /\ connectors[k].dst = <<"fan_duct", "kp", "*">>
    /\ \E k \in 1..Len(connectors) : connectors[k].asm = "TurbofanWithAtm"

PulledBy(name) == {q.child : q \in {x \in pulled : x.asm = "Turbofan" /\ x.name = name}}

PulledNames == {q.name : q \in {x \in pulled : x.asm = "Turbofan"}}

\* C9 as stated: no parent-level name of Turbofan is pulled from more than
\* one child.
C9_OneChildPerPulledName == \A n \in PulledNames : Cardinality(PulledBy(n)) = 1

\* C9 amended: every pulled name is pulled from one child and maps to one
\* field of it, except the two inputs pamb (pulled from inlet, primary_nozzle
\* and secondary_nozzle) and fuel_W (pulled from core and aero).
C9_OneChildExceptPambAndFuel ==
    /\ \A n \in PulledNames \ {"pamb", "fuel_W"} : Cardinality(PulledBy(n)) = 1
    /\ PulledBy("pamb") \subseteq {"inlet", "primary_nozzle", "secondary_nozzle"}
    /\ PulledBy("fuel_W") \subseteq {"core", "aero"}
    /\ \A q, x \in pulled :
           (q.asm = x.asm /\ q.name = x.name /\ q.child = x.child) => q.field = x.field
    /\ SetupDone =>
        /\ PulledBy("pamb") = {"inlet", "primary_nozzle", "secondary_nozzle"}
        /\ PulledBy("fuel_W") = {"core", "aero"}
        /\ PulledNames = {"fan_diameter", "frd_mount", "aft_mount", "fl_in", "pamb",
                          "bpr", "N1", "N2", "fuel_W", "opr", "thrust", "pr_split",
                          "sfc", "pr_nozzle", "ipps_weight"}

\* C9 witness: all children added, N pulled from two children under two names
C9_Witness ==
    /\ SetupDone
    /\ PulledBy("N1") = {"fan_module"}
    /\ PulledBy("N2") = {"core"}
    /\ Cardinality(PulledBy("pamb")) = 3

ScalingUnknowns == IF "scaling" \in DOMAIN design THEN design["scaling"].unknowns ELSE <<>>

ScalingTargets == IF "scaling" \in DOMAIN design THEN design["scaling"].targets ELSE <<>>

IsPrefix(a, b) == Len(a) <= Len(b) /\ a = SubSeq(b, 1, Len(a))

U(name, lower_bound, upper_bound, max_rel_step) ==
    [name |-> name, lower_bound |-> lower_bound, upper_bound |-> upper_bound,
     max_rel_step |-> max_rel_step]

T(name) == [name |-> name, value |-> "None"]

\* the manifest the claim describes: the add_unknown calls on the 'scaling'
\* method as written in Turbofan.setup, in call order, omitted bounds at
\* -inf, +inf and +inf
DeclaredUnknowns ==
    << U("fan_diameter", "-inf", "inf", "inf"),
       U("fan_module.fan.aero.xnd", "-inf", "inf", "0.5"),
       U("fan_module.fan.aero.phiP", "0.1", "1.5", "inf"),
       U("fan_module.geom.booster_radius_ratio", "-inf", "inf", "inf"),
       U("fan_module.booster.geom.blade_hub_to_tip_ratio", "1e-5", "1.0", "inf"),
       U("fan_module.booster.aero.phiP", "-inf", "inf", "inf"),
       U("fan_module.booster.aero.xnd", "-inf", "inf", "0.5"),
       U("geom.turbine_radius_ratio", "-inf", "inf", "inf"),
       U("turbine.geom.blade_height_ratio", "0.0", "1.0", "inf"),
       U("turbine.aero.Ncdes", "-inf", "inf", "inf"),
       U("geom.core_inlet_radius_ratio", "-inf", "inf", "0.8"),
       U("core.compressor.aero.xnd", "-inf", "inf", "0.5"),
       U("core.compressor.aero.phiP", "-inf", "inf", "inf"),
       U("geom.core_exit_radius_ratio", "-inf", "inf", "0.8"),
       U("core.turbine.geom.blade_height_ratio", "0.0", "1.0", "inf"),
       U("core.turbine.aero.Ncdes", "-inf", "inf", "inf"),
       U("geom.pri_nozzle_area_ratio", "0.05", "inf", "inf"),
       U("geom.sec_nozzle_area_ratio", "-inf", "1.0", "inf") >>

DeclaredTargets ==
    << T("inlet.aero.mach"),
       T("fan_module.fan.aero.pcnr"),
       T("fan_module.fan.aero.utip"),
       T("bpr"),
       T("fan_module.booster.aero.phi"),
       T("fan_module.booster.aero.psi"),
       T("fan_module.booster.aero.spec_flow"),
       T("fan_module.booster.aero.pcnr"),
       T("turbine.aero.psi"),
       T("turbine.aero.Ncqdes"),
       T("core.compressor.aero.pcnr"),
       T("core.compressor.aero.phi"),
       T("core.compressor.aero.utip"),
       T("core.compressor.aero.pr"),
       T("core.combustor.aero.Tcomb"),
       T("core.turbine.aero.psi"),
       T("core.turbine.aero.Ncqdes"),
       T("pr_nozzle") >>

DesignCallNext == At("design_add_unknown") \/ At("design_add_target")

\* C10: the 'scaling' design method holds the declared unknowns and targets
\* in call order, each unknown with the bounds and step of its call (-inf,
\* +inf, +inf when omitted), each target with value None; a later call never
\* reorders, drops or alters an earlier entry; and a call is accepted
\* whatever the two counts are.
C10_DesignManifestVerbatim ==
    /\ [](/\ IsPrefix(ScalingUnknowns, DeclaredUnknowns)
          /\ IsPrefix(ScalingTargets, DeclaredTargets)
          /\ SetupDone => (ScalingUnknowns = DeclaredUnknowns
                           /\ ScalingTargets = DeclaredTargets)
          /\ DesignCallNext => ENABLED (DesignAddUnknown \/ DesignAddTarget))
    /\ [][/\ IsPrefix(ScalingUnknowns, ScalingUnknowns')
          /\ IsPrefix(ScalingTargets, ScalingTargets')]_vars

\* C10 witness: every unknown declared and one target still to come, so that
\* the two counts differ and the next call is accepted
C10_Witness ==
    /\ ScalingUnknowns = DeclaredUnknowns
    /\ Len(ScalingTargets) + 1 = Len(DeclaredTargets)
    /\ ScalingUnknowns[3].lower_bound = "0.1"
    /\ ScalingUnknowns[2].max_rel_step = "0.5"
    /\ ENABLED DesignAddTarget

\* the names TurbofanGeom.setup declares: inwards, output ports and outwards
GeomDeclared == DOMAIN inwards \cup DOMAIN ports \cup DOMAIN outwards

\* the geom field a connector end names: the port when a port of geom is
\* connected, the mapped variable when the system itself is
GeomFieldOf(end) ==
    IF end[2] \in {"", "inwards", "outwards"} THEN end[3] ELSE end[2]

\* the geom fields named by the connections made so far
GeomFieldsConnected ==
    {GeomFieldOf(e) :
        e \in {end \in {connectors[k].src : k \in 1..Len(connectors)}
                        \cup {connectors[k].dst : k \in 1..Len(connectors)} :
                   end[1] = "geom"}}

\* the dotted unknown paths whose first component is the child geom, with the
\* field that follows the dot
GeomPathField ==
    [p \in {"geom.turbine_radius_ratio", "geom.core_inlet_radius_ratio",
            "geom.core_exit_radius_ratio", "geom.pri_nozzle_area_ratio",
            "geom.sec_nozzle_area_ratio"} |->
        CASE p = "geom.turbine_radius_ratio" -> "turbine_radius_ratio"
          [] p = "geom.core_inlet_radius_ratio" -> "core_inlet_radius_ratio"
          [] p = "geom.core_exit_radius_ratio" -> "core_exit_radius_ratio"
          [] p = "geom.pri_nozzle_area_ratio" -> "pri_nozzle_area_ratio"
          [] p = "geom.sec_nozzle_area_ratio" -> "sec_nozzle_area_ratio"]

\* the geom fields named by the unknowns declared so far
GeomFieldsUnknown ==
    {GeomPathField[n] :
        n \in {ScalingUnknowns[k].name : k \in 1..Len(ScalingUnknowns)}
                  \cap DOMAIN GeomPathField}

\* C15: every geom field named by a connection of Turbofan.setup and every
\* design unknown path prefixed 'geom.' is an inward, an outward or an output
\* port that TurbofanGeom.setup declares
C15_GeomReferencesDeclared ==
    /\ GeomFieldsConnected \subseteq GeomDeclared
    /\ GeomFieldsUnknown \subseteq GeomDeclared

=============================================================================
